---- MODULE Spec2Model ----
(***************************************************************************)
(* Model of the two scripts of pyapp: embed.py (collection "ristobot") and *)
(* test.py (collection "book").  Each script is a straight-line program    *)
(* against a vector-database service and a sentence embedder.  The state   *)
(* is the database (which outlives a run), the process (its position, its  *)
(* locals, its named connection) and the history of the calls it issued.   *)
(***************************************************************************)
EXTENDS Integers, Sequences, FiniteSets, TLC

VARIABLES
    script,              \* which script the current process runs
    run,                 \* number of the current run (process)
    pc,                  \* position of the process in its script
    cause,               \* why the run crashed ("none" while it has not)
    failedAt,            \* the step that raised ("none" while none has)
    connected,           \* alias "default" is registered in connections
    disconnects,         \* calls of connections.disconnect("default") so far
    db,                  \* the service: collection name -> collection
    tso,                 \* the service's timestamp / id allocator
    bert,                \* the embedding model artefact on disk
    check_collection,    \* result of utility.has_collection
    sentence_embeddings, \* model.encode(sentences)
    word_counts,         \* test.py: [random.randint(1, 100) ...]
    entities,            \* the rows handed to collection.insert
    insert_result,       \* primary keys the insert returned
    search_vec,          \* test.py: [model.encode([search_str])[0].tolist()]
    results,             \* test.py: hits of collection.search
    matched_book_id,     \* test.py
    matched_sentence,    \* test.py
    given_id,            \* test.py: id the structured query filters on
    res,                 \* test.py: rows of collection.query
    idx,                 \* loop index of the running for loop
    printed,             \* test.py: rows printed by the result loop
    oplog,               \* service / connection calls issued by this run
    pre,                 \* the target collection's entities when the run began,
                         \* each named by its timestamp (none is allotted twice)
    preExists,           \* whether the target collection existed then
    last                 \* script -> contents left by its previous finished run

vars == <<script, run, pc, cause, failedAt, connected, disconnects, db, tso,
          bert, check_collection, sentence_embeddings, word_counts, entities,
          insert_result, search_vec, results, matched_book_id, matched_sentence,
          given_id, res, idx, printed, oplog, pre, preExists, last>>

----------------------------------------------------------------------------
(* Bounds of the model *)

\* number of processes started one after the other
MaxRuns == 2

\* longest row list a misbehaving query reply carries (SpecEnv only)
MaxRes == 2

----------------------------------------------------------------------------
(* Program constants *)

Scripts == {"embed", "test"}

\* embed.py:32, test.py:9
collection_name(s) == IF s = "embed" THEN "ristobot" ELSE "book"

Names == {collection_name(s) : s \in Scripts}

\* a schema declared for a wider model than the one loaded
dim_wider == 2 * 384

\* embed.py:27, test.py:30
dim == 384

\* output width of multi-qa-MiniLM-L6-cos-v1 (embed.py:46, test.py:8)
ModelDim == 384

\* test.py:44
nb == 3

\* test.py:121
topk == 1

\* test.py:82, random.randint(1, 100)
RandLo == 1
RandHi == 100

\* test.py:116
search_str == "pera"

\* test.py:138
DefaultMatchedBookId == 0

\* embed.py:48-52, test.py:57-61
sentences(s) ==
    IF s = "embed"
    THEN << "This is an example sentence",
            "Each string here gets embedded",
            "The embeddings can then be indexed using Milvus" >>
    ELSE << "mela", "pera", "banana" >>

\* embed.py:25-29, test.py:31-37
Schema(s) ==
    IF s = "embed"
    THEN [pk |-> "id", auto_id |-> TRUE, vec |-> "ristodata", dim |-> dim,
          fields |-> {"id", "ristodata"}]
    ELSE [pk |-> "book_id", auto_id |-> FALSE, vec |-> "book_intro", dim |-> dim,
          fields |-> {"book_id", "word_count", "book_intro", "sentence"}]

NoSchema == [pk |-> "", auto_id |-> FALSE, vec |-> "", dim |-> 0, fields |-> {}]

\* the partition every new collection is created with
DefaultPartition == "_default"

\* embed.py:73 passes collection_name as the second positional argument of
\* Collection.insert, which is partition_name; test.py:88 passes none
InsertPartition(s) == IF s = "embed" THEN collection_name(s) ELSE DefaultPartition

----------------------------------------------------------------------------
(* The embedder: SentenceTransformer(dir).encode *)

\* the strings the scripts and the old entities use
Vocabulary ==
    << "This is an example sentence",
       "Each string here gets embedded",
       "The embeddings can then be indexed using Milvus",
       "mela", "pera", "banana", "vecchio" >>

SentenceCode(s) == CHOOSE i \in 1..Len(Vocabulary) : Vocabulary[i] = s

\* the artefacts the directory may hold: each one is a deterministic map
\* from a sentence to ModelDim numbers (fixed point), distinct sentences
\* getting distinct vectors
Models == {0, 1}

Embed(m, s) ==
    LET c == SentenceCode(s)
    IN  [j \in 1..ModelDim |-> ((c * (j + m)) % 11) - 5]

\* model.encode(list): one vector per string, in order
encode(m, list) == [i \in 1..Len(list) |-> Embed(m, list[i])]

\* ndarray.tolist(): the same numbers, as a list
tolist(v) == [j \in 1..Len(v) |-> v[j]]

----------------------------------------------------------------------------
(* The service: collections *)

Absent ==
    [exists |-> FALSE, schema |-> NoSchema, partitions |-> {},
     growing |-> {}, sealed |-> {}, indexed |-> FALSE, loaded |-> FALSE]

Fresh(schema) ==
    [exists |-> TRUE, schema |-> schema, partitions |-> {DefaultPartition},
     growing |-> {}, sealed |-> {}, indexed |-> FALSE, loaded |-> FALSE]

\* utility.has_collection(name)
HasCollection(d, n) == d[n].exists

\* utility.drop_collection(name) / Collection(name).drop()
DropCollection(d, n) == [d EXCEPT ![n] = Absent]

\* Collection(name, schema=schema): creates the collection when it is absent,
\* binds to the existing one otherwise
CreateCollection(d, n, schema) ==
    IF d[n].exists THEN d ELSE [d EXCEPT ![n] = Fresh(schema)]

\* every entity of a collection, flushed or not
AllEntities(c) == c.sealed \cup c.growing

Stamps(es) == {e.ts : e \in es}

\* what count, search and query see: the flushed entities
Visible(c) == c.sealed

Rows(es) == {e.row : e \in es}

Min(a, b) == IF a <= b THEN a ELSE b

\* the rows of an insert request: embed.py hands a list of dicts, test.py a
\* list of columns in the order of the schema's fields
ColumnNames == << "book_id", "word_count", "book_intro", "sentence" >>

ColumnsAligned(cols) ==
    /\ Len(cols) = Len(ColumnNames)
    /\ \A i \in 1..Len(cols) : Len(cols[i]) = Len(cols[1])

RowsOf(s, ents) ==
    IF s = "embed"
    THEN ents
    ELSE [i \in 1..Len(ents[1]) |->
             [f \in {ColumnNames[k] : k \in 1..Len(ColumnNames)} |->
                 ents[CHOOSE k \in 1..Len(ColumnNames) : ColumnNames[k] = f][i]]]

\* the service accepts an insert when the collection and the partition exist
\* and every row carries the schema's fields (less an auto id) with a vector
\* of the declared dimension
InsertOk(d, n, s, part, ents) ==
    /\ d[n].exists
    /\ part \in d[n].partitions
    /\ (s # "embed" => ColumnsAligned(ents))
    /\ LET sch == d[n].schema
           want == IF sch.auto_id THEN sch.fields \ {sch.pk} ELSE sch.fields
           rows == RowsOf(s, ents)
       IN  \A i \in 1..Len(rows) :
              /\ DOMAIN rows[i] = want
              /\ Len(rows[i][sch.vec]) = sch.dim

\* the stored rows: with auto_id the service allots the primary keys
StoredRows(d, n, s, ents, t) ==
    LET sch  == d[n].schema
        rows == RowsOf(s, ents)
    IN  [i \in 1..Len(rows) |->
            IF sch.auto_id
            THEN [f \in sch.fields |-> IF f = sch.pk THEN t + i - 1 ELSE rows[i][f]]
            ELSE rows[i]]

\* collection.insert(entities[, partition_name])
Insert(d, n, s, ents, t) ==
    LET st == StoredRows(d, n, s, ents, t)
    IN  [d EXCEPT ![n].growing =
            @ \cup {[row |-> st[i], ts |-> t + i - 1] : i \in 1..Len(st)}]

InsertedKeys(d, n, s, ents, t) ==
    LET st == StoredRows(d, n, s, ents, t)
    IN  [i \in 1..Len(st) |-> st[i][d[n].schema.pk]]

\* collection.flush()
Flush(d, n) ==
    [d EXCEPT ![n].sealed = @ \cup d[n].growing, ![n].growing = {}]

\* collection.create_index(field_name, index_params)
CreateIndex(d, n) == [d EXCEPT ![n].indexed = TRUE]

\* collection.load(): the service refuses to load a collection with no index
LoadOk(d, n) == d[n].exists /\ d[n].indexed

Load(d, n) == [d EXCEPT ![n].loaded = TRUE]

\* collection.num_entities
NumEntities(d, n) == Cardinality(Visible(d[n]))

----------------------------------------------------------------------------
(* The service: search and query *)

\* the sum over lo..hi of the squared differences, by halves
RECURSIVE SumSq(_, _, _, _)
SumSq(a, b, lo, hi) ==
    IF lo > hi THEN 0
    ELSE IF lo = hi THEN LET df == a[lo] - b[lo] IN df * df
    ELSE LET mid == (lo + hi) \div 2
         IN  SumSq(a, b, lo, mid) + SumSq(a, b, mid + 1, hi)

\* metric_type L2
L2(a, b) == SumSq(a, b, 1, Len(a))

Hit(c, e, q) ==
    [id |-> e.row[c.schema.pk], distance |-> L2(q, e.row[c.schema.vec])]

\* the injective sequences of length m over S
Arrangements(S, m) ==
    {f \in [1..m -> S] : \A i, j \in 1..m : i # j => f[i] # f[j]}

\* collection.search(vec, anns_field, param, limit): the limit nearest
\* entities by ascending distance; equal distances come in any order
SearchReplies(c, q, limit) ==
    LET es   == Visible(c)
        near == {[ent |-> e, distance |-> L2(q, e.row[c.schema.vec])] : e \in es}
        m    == Min(limit, Cardinality(es))
        best == {f \in Arrangements(near, m) :
                    /\ \A i \in 1..m : \A j \in 1..m :
                          i < j => f[i].distance <= f[j].distance
                    /\ \A h \in near : (\A i \in 1..m : f[i] # h) =>
                                        \A i \in 1..m : f[i].distance <= h.distance}
    IN  {[i \in 1..m |->
             [id |-> f[i].ent.row[c.schema.pk], distance |-> f[i].distance]] :
            f \in best}

\* a reply that need not be the nearest entities: any hits, or none
AnySearchReplies(c, q, limit) ==
    LET es == Visible(c)
    IN  UNION {{[i \in 1..m |-> Hit(c, f[i], q)] : f \in Arrangements(es, m)} :
                  m \in 0..Min(limit, Cardinality(es))}

Project(row, fields) == [f \in fields |-> row[f]]

\* test.py:155-156
OutputFields == {"book_id", "word_count", "sentence"}

\* the rows the filter  book_id == id  selects
Matching(c, id) == {e \in Visible(c) : e.row[c.schema.pk] = id}

\* collection.query(expr, output_fields): the selected rows, in any order
QueryReplies(c, id) ==
    LET S == Matching(c, id)
    IN  {[i \in 1..Cardinality(S) |-> Project(f[i].row, OutputFields)] :
            f \in Arrangements(S, Cardinality(S))}

\* a reply that may miss rows or repeat them
AnyQueryReplies(c, id) ==
    LET R == {Project(e.row, OutputFields) : e \in Matching(c, id)}
    IN  UNION {[1..m -> R] : m \in 0..MaxRes}

----------------------------------------------------------------------------
(* The scripts *)

\* the scripts with flush called before insert
OrderFlushFirst(s) ==
    IF s = "embed"
    THEN << "config", "connect", "has_collection", "drop", "create",
            "load_model", "encode", "flush", "insert", "disconnect", "done" >>
    ELSE << "config", "connect", "has_collection", "drop", "create",
            "load_model", "encode", "flush", "insert", "create_index", "load",
            "encode_query", "search", "hit_loop", "query", "result_loop", "done" >>

\* the statements of each script, in the order of its lines
Order(s) ==
    IF s = "embed"
    THEN << "config", "connect", "has_collection", "drop", "create",
            "load_model", "encode", "insert", "flush", "disconnect", "done" >>
    ELSE << "config", "connect", "has_collection", "drop", "create",
            "load_model", "encode", "insert", "flush", "create_index", "load",
            "encode_query", "search", "hit_loop", "query", "result_loop", "done" >>

\* the statement that follows step in script s
After(s, step) ==
    LET o == Order(s)
        i == CHOOSE k \in 1..Len(o) : o[k] = step
    IN  o[i + 1]

\* the test of the drop inverted:  if not has_collection(...)
AfterCheckInverted(s, found) ==
    IF found THEN After(s, "drop") ELSE After(s, "has_collection")

\* the drop left out
AfterCheckNoDrop(s, found) == After(s, "drop")

\* embed.py:36-38, test.py:25-26: the drop is called when the collection exists
AfterCheck(s, found) ==
    IF found THEN After(s, "has_collection") ELSE After(s, "drop")

\* an exception swallowed by  try: ... except: pass
RaiseSwallowed(s, step) == After(s, step)

\* where an exception leaves the process: neither script has a try/except
Raise(s, step) == "crashed"

\* test.py:162 stands inside the result loop, embed.py:81 ends the script
AfterDisconnect(s) == IF s = "embed" THEN After(s, "disconnect") ELSE "result_loop"

\* the steps that call the service or the connection registry
ServiceOps ==
    {"connect", "has_collection", "drop", "create", "insert", "flush",
     "create_index", "load", "search", "query", "disconnect"}

\* the steps that depend on the outside (file system, network, service)
Fallible ==
    {"config", "connect", "has_collection", "drop", "create", "load_model",
     "encode", "insert", "flush", "create_index", "load", "encode_query",
     "search", "query"}

Issue(log, step) == IF step \in ServiceOps THEN Append(log, step) ELSE log

target == collection_name(script)

\* ids counted from one
book_ids_from_one == [i \in 1..nb |-> i]

\* test.py:63, 81
book_ids == [i \in 1..nb |-> i - 1]

\* dict(zip(keys, values)): keys[i] -> values[i], as far as the shorter goes
ZipMap(keys, values) ==
    LET n == Min(Len(keys), Len(values))
    IN  [k \in {keys[i] : i \in 1..n} |->
            values[CHOOSE i \in 1..n : keys[i] = k /\ \A j \in (i + 1)..n : keys[j] # k]]

Reverse(seq) == [i \in 1..Len(seq) |-> seq[Len(seq) + 1 - i]]

\* the map built against the sentences in reverse order
id_sentence_map_reversed == ZipMap(book_ids, Reverse(sentences("test")))

\* test.py:64
id_sentence_map == ZipMap(book_ids, sentences("test"))

\* embed.py:64-66, test.py:81-85
MakeEntities(s, embs, wcs) ==
    IF s = "embed"
    THEN [i \in 1..Len(embs) |-> [ristodata |-> tolist(embs[i])]]
    ELSE << book_ids, wcs, [i \in 1..Len(embs) |-> tolist(embs[i])], sentences(s) >>

\* the values random.randint(RandLo, RandHi) is drawn from here: its extremes
RandValues == {RandLo, RandHi}

\* the contents left behind in an earlier life of the database: nothing, an
\* empty collection, or a collection with an old entity
OldRow(s, m) ==
    IF s = "embed"
    THEN [id |-> 0, ristodata |-> Embed(m, "vecchio")]
    ELSE [book_id |-> 0, word_count |-> RandHi, book_intro |-> Embed(m, "vecchio"),
          sentence |-> "vecchio"]

OldKinds == {"absent", "empty", "used"}

OldCollection(s, m, kind) ==
    CASE kind = "absent" -> Absent
      [] kind = "empty"  -> Fresh(Schema(s))
      [] kind = "used"   ->
            [Fresh(Schema(s)) EXCEPT !.sealed = {[row |-> OldRow(s, m), ts |-> 0]},
                                     !.indexed = TRUE, !.loaded = TRUE]

\* a script touches no collection but its own, so the two collections start
\* in the same condition
OldDatabases(m) ==
    {[n \in Names |->
         OldCollection(CHOOSE s \in Scripts : collection_name(s) = n, m, kind)] :
        kind \in OldKinds}

None == [exists |-> FALSE, rows |-> {}]

locals == <<check_collection, sentence_embeddings, word_counts, entities,
            insert_result, search_vec, results, matched_book_id, matched_sentence, given_id,
            res, idx, printed>>

history == <<pre, preExists, last>>

InitLocals ==
    /\ check_collection = FALSE
    /\ sentence_embeddings = << >>
    /\ word_counts = << >>
    /\ entities = << >>
    /\ insert_result = << >>
    /\ search_vec = << >>
    /\ results = << >>
    /\ matched_book_id = -1
    /\ matched_sentence = ""
    /\ given_id = -1
    /\ res = << >>
    /\ idx = 1
    /\ printed = << >>

Init ==
    /\ script \in Scripts
    /\ run = 1
    /\ pc = "config"
    /\ cause = "none"
    /\ failedAt = "none"
    /\ connected = FALSE
    /\ disconnects = 0
    /\ bert \in Models
    /\ db \in OldDatabases(bert)
    /\ tso = 1
    /\ InitLocals
    /\ oplog = << >>
    /\ pre = Stamps(AllEntities(db[target]))
    /\ preExists = db[target].exists
    /\ last = [s \in Scripts |-> None]

\* embed.py:15-18, test.py:13-16
Config ==
    /\ pc = "config"
    /\ pc' = After(script, "config")
    /\ UNCHANGED <<script, run, cause, failedAt, connected, disconnects, db, tso,
                   bert, locals, oplog, history>>

\* embed.py:20-22, test.py:18-20
Connect ==
    /\ pc = "connect"
    /\ connected' = TRUE
    /\ oplog' = Issue(oplog, "connect")
    /\ pc' = After(script, "connect")
    /\ UNCHANGED <<script, run, cause, failedAt, disconnects, db, tso, bert,
                   locals, history>>

\* embed.py:36, test.py:24-25
CheckCollection ==
    /\ pc = "has_collection"
    /\ check_collection' = HasCollection(db, target)
    /\ oplog' = Issue(oplog, "has_collection")
    /\ pc' = AfterCheck(script, check_collection')
    /\ UNCHANGED <<script, run, cause, failedAt, connected, disconnects, db, tso,
                   bert, sentence_embeddings, word_counts, entities, insert_result,
                   search_vec, results, matched_book_id, matched_sentence,
                   given_id, res, idx, printed, history>>

\* embed.py:37-38, test.py:26
Drop ==
    /\ pc = "drop"
    /\ db' = DropCollection(db, target)
    /\ oplog' = Issue(oplog, "drop")
    /\ pc' = After(script, "drop")
    /\ UNCHANGED <<script, run, cause, failedAt, connected, disconnects, tso, bert,
                   locals, history>>

\* embed.py:42, test.py:39
Create ==
    /\ pc = "create"
    /\ db' = CreateCollection(db, target, Schema(script))
    /\ oplog' = Issue(oplog, "create")
    /\ pc' = After(script, "create")
    /\ UNCHANGED <<script, run, cause, failedAt, connected, disconnects, tso, bert,
                   locals, history>>

\* embed.py:46, test.py:52
LoadModel ==
    /\ pc = "load_model"
    /\ pc' = After(script, "load_model")
    /\ UNCHANGED <<script, run, cause, failedAt, connected, disconnects, db, tso,
                   bert, locals, oplog, history>>

\* embed.py:56-66, test.py:62-85
Encode ==
    /\ pc = "encode"
    /\ sentence_embeddings' = encode(bert, sentences(script))
    /\ word_counts' \in IF script = "test" THEN [1..nb -> RandValues] ELSE {<< >>}
    /\ entities' = MakeEntities(script, sentence_embeddings', word_counts')
    /\ pc' = After(script, "encode")
    /\ UNCHANGED <<script, run, cause, failedAt, connected, disconnects, db, tso,
                   bert, check_collection, insert_result, search_vec, results,
                   matched_book_id, matched_sentence, given_id, res, idx, printed,
                   oplog, history>>

\* embed.py:73, test.py:88
InsertEntities ==
    /\ pc = "insert"
    /\ oplog' = Issue(oplog, "insert")
    /\ IF InsertOk(db, target, script, InsertPartition(script), entities)
       THEN /\ db' = Insert(db, target, script, entities, tso)
            /\ insert_result' = InsertedKeys(db, target, script, entities, tso)
            /\ tso' = tso + Len(insert_result')
            /\ pc' = After(script, "insert")
            /\ UNCHANGED <<cause, failedAt>>
       ELSE /\ pc' = Raise(script, "insert")
            /\ cause' = "insert_rejected"
            /\ failedAt' = "insert"
            /\ UNCHANGED <<db, insert_result, tso>>
    /\ UNCHANGED <<script, run, connected, disconnects, bert, check_collection,
                   sentence_embeddings, word_counts, entities, search_vec,
                   results, matched_book_id, matched_sentence, given_id, res, idx,
                   printed, history>>

\* embed.py:77, test.py:96
FlushCollection ==
    /\ pc = "flush"
    /\ db' = Flush(db, target)
    /\ oplog' = Issue(oplog, "flush")
    /\ pc' = After(script, "flush")
    /\ UNCHANGED <<script, run, cause, failedAt, connected, disconnects, tso, bert,
                   locals, history>>

\* test.py:100-103
BuildIndex ==
    /\ pc = "create_index"
    /\ db' = CreateIndex(db, target)
    /\ oplog' = Issue(oplog, "create_index")
    /\ pc' = After(script, "create_index")
    /\ UNCHANGED <<script, run, cause, failedAt, connected, disconnects, tso, bert,
                   locals, history>>

\* test.py:110
LoadCollection ==
    /\ pc = "load"
    /\ oplog' = Issue(oplog, "load")
    /\ IF LoadOk(db, target)
       THEN /\ db' = Load(db, target)
            /\ pc' = After(script, "load")
            /\ UNCHANGED <<cause, failedAt>>
       ELSE /\ pc' = Raise(script, "load")
            /\ cause' = "load_rejected"
            /\ failedAt' = "load"
            /\ UNCHANGED db
    /\ UNCHANGED <<script, run, connected, disconnects, tso, bert, locals, history>>

\* test.py:123-124
EncodeQuery ==
    /\ pc = "encode_query"
    /\ search_vec' = << tolist(encode(bert, << search_str >>)[1]) >>
    /\ pc' = After(script, "encode_query")
    /\ UNCHANGED <<script, run, cause, failedAt, connected, disconnects, db, tso,
                   bert, check_collection, sentence_embeddings, word_counts,
                   entities, insert_result, results, matched_book_id,
                   matched_sentence, given_id, res, idx, printed, oplog, history>>

\* test.py:129-138; replies is what the service may answer
Search(replies) ==
    /\ pc = "search"
    /\ oplog' = Issue(oplog, "search")
    /\ IF db[target].exists /\ db[target].loaded
       THEN /\ results' \in {<< h >> : h \in replies}
            /\ matched_book_id' = DefaultMatchedBookId
            /\ idx' = 1
            /\ pc' = After(script, "search")
            /\ UNCHANGED <<cause, failedAt>>
       ELSE /\ pc' = Raise(script, "search")
            /\ cause' = "not_loaded"
            /\ failedAt' = "search"
            /\ UNCHANGED <<results, matched_book_id, idx>>
    /\ UNCHANGED <<script, run, connected, disconnects, db, tso, bert,
                   check_collection, sentence_embeddings, word_counts, entities,
                   insert_result, search_vec, matched_sentence, given_id, res,
                   printed, history>>

SearchExact == Search(SearchReplies(db[target], search_vec[1], topk))

SearchAny == Search(AnySearchReplies(db[target], search_vec[1], topk))

\* test.py:140-148: one turn of  for hit in results[0], or its end
HitLoop ==
    /\ pc = "hit_loop"
    /\ IF idx <= Len(results[1])
       THEN LET hit == results[1][idx]
            IN  IF hit.id \in DOMAIN id_sentence_map
                THEN /\ matched_book_id' = hit.id
                     /\ matched_sentence' = id_sentence_map[hit.id]
                     /\ idx' = idx + 1
                     /\ UNCHANGED <<pc, cause, failedAt>>
                ELSE /\ matched_book_id' = hit.id
                     /\ pc' = Raise(script, "hit_loop")
                     /\ cause' = "KeyError"
                     /\ failedAt' = "hit_loop"
                     /\ UNCHANGED <<matched_sentence, idx>>
       ELSE /\ pc' = After(script, "hit_loop")
            /\ idx' = 1
            /\ UNCHANGED <<matched_book_id, matched_sentence, cause, failedAt>>
    /\ UNCHANGED <<script, run, connected, disconnects, db, tso, bert,
                   check_collection, sentence_embeddings, word_counts, entities,
                   insert_result, search_vec, results, given_id, res, printed,
                   oplog, history>>

\* test.py:153-157; replies is what the service may answer
Query(any) ==
    /\ pc = "query"
    /\ given_id' = matched_book_id
    /\ oplog' = Issue(oplog, "query")
    /\ res' \in IF any THEN AnyQueryReplies(db[target], given_id')
                       ELSE QueryReplies(db[target], given_id')
    /\ idx' = 1
    /\ pc' = After(script, "query")
    /\ UNCHANGED <<script, run, cause, failedAt, connected, disconnects, db, tso,
                   bert, check_collection, sentence_embeddings, word_counts,
                   entities, insert_result, search_vec, results, matched_book_id,
                   matched_sentence, printed, history>>

QueryExact == Query(FALSE)

QueryAny == Query(TRUE)

\* test.py:160-161: one turn of  for item in res  up to its print, or its end
ResultLoop ==
    /\ pc = "result_loop"
    /\ IF idx <= Len(res)
       THEN /\ printed' = Append(printed, res[idx])
            /\ idx' = idx + 1
            /\ pc' = "disconnect"
       ELSE /\ pc' = After(script, "result_loop")
            /\ UNCHANGED <<printed, idx>>
    /\ UNCHANGED <<script, run, cause, failedAt, connected, disconnects, db, tso,
                   bert, check_collection, sentence_embeddings, word_counts,
                   entities, insert_result, search_vec, results, matched_book_id,
                   matched_sentence, given_id, res, oplog, history>>

\* embed.py:81, test.py:162
Disconnect ==
    /\ pc = "disconnect"
    /\ connected' = FALSE
    /\ disconnects' = disconnects + 1
    /\ oplog' = Issue(oplog, "disconnect")
    /\ pc' = AfterDisconnect(script)
    /\ UNCHANGED <<script, run, cause, failedAt, db, tso, bert, locals, history>>

\* the step the process stands at raises: the exception is not caught
Fail ==
    /\ pc \in Fallible
    /\ oplog' = Issue(oplog, pc)
    /\ pc' = Raise(script, pc)
    /\ cause' = "env"
    /\ failedAt' = pc
    /\ UNCHANGED <<script, run, connected, disconnects, db, tso, bert, locals,
                   history>>

\* a new process starts with no locals bound
ResetLocals ==
    /\ check_collection' = FALSE
    /\ sentence_embeddings' = << >>
    /\ word_counts' = << >>
    /\ entities' = << >>
    /\ insert_result' = << >>
    /\ search_vec' = << >>
    /\ results' = << >>
    /\ matched_book_id' = -1
    /\ matched_sentence' = ""
    /\ given_id' = -1
    /\ res' = << >>
    /\ idx' = 1
    /\ printed' = << >>

Ended == pc \in {"done", "crashed"}

Contents(c) == [exists |-> c.exists, rows |-> AllEntities(c)]

\* the process has exited; a script is run again
Restart ==
    /\ Ended
    /\ run < MaxRuns
    /\ run' = run + 1
    /\ script' \in Scripts
    /\ pc' = "config"
    /\ cause' = "none"
    /\ failedAt' = "none"
    /\ connected' = FALSE
    /\ disconnects' = 0
    /\ ResetLocals
    /\ oplog' = << >>
    /\ pre' = Stamps(AllEntities(db[collection_name(script')]))
    /\ preExists' = db[collection_name(script')].exists
    /\ last' = IF pc = "done"
               THEN [last EXCEPT ![script] = Contents(db[target])]
               ELSE last
    /\ UNCHANGED <<db, tso, bert>>

Common ==
    \/ Config
    \/ Connect
    \/ CheckCollection
    \/ Drop
    \/ Create
    \/ LoadModel
    \/ Encode
    \/ InsertEntities
    \/ FlushCollection
    \/ BuildIndex
    \/ LoadCollection
    \/ EncodeQuery
    \/ HitLoop
    \/ ResultLoop
    \/ Disconnect
    \/ Fail
    \/ Restart

\* the service answers search and query as its contract says
Next == Common \/ SearchExact \/ QueryExact

Spec == Init /\ [][Next]_vars

\* the service's replies to search and query are not relied on
NextEnv == Common \/ SearchAny \/ QueryAny

SpecEnv == Init /\ [][NextEnv]_vars

----------------------------------------------------------------------------
(* Properties *)

Range(f) == {f[i] : i \in DOMAIN f}

Issued(op) == op \in Range(oplog)

\* position of the first call of op in this run, 0 when it was not called
Pos(op) == IF Issued(op) THEN CHOOSE i \in 1..Len(oplog) :
                                  oplog[i] = op /\ \A j \in 1..(i - 1) : oplog[j] # op
           ELSE 0

\* when b was called, a was called before it
Precedes(a, b) == Issued(b) => (Issued(a) /\ Pos(a) < Pos(b))

\* the rows of this run's insert request
RequestRows == Range(RowsOf(script, entities))

RequestFields == IF script = "embed" THEN {"ristodata"} ELSE Schema(script).fields

\* C1: a collection that exists when the run begins is dropped before the
\* create, and when the run has ended without a failure the collection
\* exists, holds exactly the rows this run inserted and none of the entities
\* it held before the run.
C1_DropThenFresh ==
    /\ (preExists /\ Issued("create")) => (Issued("drop") /\ Pos("drop") < Pos("create"))
    /\ pc = "done" =>
          /\ db[target].exists
          /\ Stamps(AllEntities(db[target])) \cap pre = {}
          /\ {Project(r, RequestFields) : r \in Rows(AllEntities(db[target]))}
                = RequestRows
          /\ Cardinality(AllEntities(db[target])) = Len(RowsOf(script, entities))

C1_Witness ==
    /\ pc = "done"
    /\ preExists
    /\ pre # {}
    /\ Issued("drop")
    /\ Cardinality(AllEntities(db[target])) = 3

\* C2: once a run has called insert, and unless the outside made insert or
\* flush fail or the flush is still to come, the collection shows exactly one
\* entity per sample sentence (3), in test.py with book_id 0, 1, 2.
C2_InsertFlushVisible ==
    (/\ Issued("insert")
     /\ pc # "flush"
     /\ ~(cause = "env" /\ failedAt \in {"insert", "flush"}))
    => /\ NumEntities(db, target) = Len(sentences(script))
       /\ script = "test" =>
             {e.row["book_id"] : e \in Visible(db[target])} = {0, 1, 2}

\* the part of C2 that is about test.py
C2_TestPart == script = "test" => C2_InsertFlushVisible

SearchDone == results # << >>

\* C3: the search for search_str with limit 1 returns one hit, at distance 0,
\* whose id resolves through id_sentence_map to search_str; and in the state
\* the search runs in, the same is true of the search with the embedding of
\* any of the inserted sentences (sentence_embeddings[i]) as the query.
C3_TopOneIsTheSentence ==
    /\ (script = "test" /\ SearchDone) =>
          /\ Len(results[1]) = 1
          /\ results[1][1].distance = 0
          /\ results[1][1].id \in DOMAIN id_sentence_map
          /\ id_sentence_map[results[1][1].id] = search_str
    /\ (script = "test" /\ pc = "query") => matched_sentence = search_str
    /\ (script = "test" /\ pc = "search") =>
          \A i \in 1..Len(sentences("test")) :
             \A h \in SearchReplies(db[target], sentence_embeddings[i], topk) :
                /\ Len(h) = 1
                /\ h[1].distance = 0
                /\ h[1].id \in DOMAIN id_sentence_map
                /\ id_sentence_map[h[1].id] = sentences("test")[i]

C3_Witness ==
    /\ script = "test"
    /\ pc = "query"
    /\ Len(results[1]) = 1
    /\ matched_sentence = "pera"
    /\ matched_book_id = 1

QueryDone == Issued("query") /\ pc # "crashed"

\* C4: the query on the id of the top-1 hit returns exactly one row, and the
\* row carries the book_id, word_count and sentence inserted for that id.
C4_QueryReturnsInsertedRow ==
    (script = "test" /\ QueryDone) =>
       /\ given_id = results[1][1].id
       /\ Len(res) = 1
       /\ res[1]["book_id"] = given_id
       /\ res[1]["sentence"] = sentences("test")[given_id + 1]
       /\ res[1]["sentence"] = id_sentence_map[given_id]
       /\ res[1]["word_count"] = word_counts[given_id + 1]

C4_Witness ==
    /\ script = "test"
    /\ pc = "done"
    /\ Len(printed) = 1
    /\ printed[1]["book_id"] = 1
    /\ printed[1]["sentence"] = "pera"

RanBefore == pc = "done" /\ last[script].exists

\* C5 as stated: a second complete run leaves the rows, all fields included,
\* that the previous complete run of the script left.
C5_SameContents ==
    RanBefore => Rows(AllEntities(db[target])) = Rows(last[script].rows)

StableFields == Schema(script).fields \ {"word_count"}

\* C5 amended: a second complete run leaves as many entities as the previous
\* complete run of the script left, with the same values in every field but
\* word_count.
C5_SameUpToWordCount ==
    RanBefore =>
       /\ Cardinality(AllEntities(db[target])) = Cardinality(last[script].rows)
       /\ {Project(r, StableFields) : r \in Rows(AllEntities(db[target]))}
             = {Project(r, StableFields) : r \in Rows(last[script].rows)}

C5_Witness ==
    /\ RanBefore
    /\ script = "test"
    /\ Rows(AllEntities(db[target])) # Rows(last[script].rows)

\* C6: a run that ends without a failure has called disconnect exactly once,
\* as its last call.
C6_DisconnectOnce ==
    pc = "done" =>
       /\ disconnects = 1
       /\ oplog # << >>
       /\ oplog[Len(oplog)] = "disconnect"
       /\ ~connected

\* C7: once a step has raised, the process takes no further step (the next
\* thing that happens is a new process), no call is issued twice, the call
\* that raised is the last one issued, and after a failed create the
\* collection is absent and no insert was attempted.
C7_FailFast ==
    [][ /\ failedAt # "none" =>
              (pc' = "config" /\ run' = run + 1 /\ db' = db /\ tso' = tso)
        /\ \A i, j \in 1..Len(oplog') : i # j => oplog'[i] # oplog'[j]
        /\ (failedAt' \in ServiceOps) =>
              (pc' = "crashed" /\ oplog'[Len(oplog')] = failedAt')
        /\ (failedAt' = "create") =>
              (~db'[collection_name(script')].exists /\ "insert" \notin Range(oplog'))
      ]_vars

C7_Witness ==
    /\ pc = "crashed"
    /\ failedAt = "create"
    /\ preExists
    /\ pre # {}
    /\ Issued("drop")
    /\ ~db[target].exists

\* C8: the insert request carries one row per sentence, each vector has as
\* many components as the schema declares (384), the vector of the i-th row is
\* the embedding of the i-th sentence (looked at where the request is about to
\* be sent: it does not change afterwards), and every entity stored in the
\* collection has a vector of the declared dimension.
C8_VectorDimension ==
    /\ entities # << >> =>
          LET rows == RowsOf(script, entities)
              vec  == Schema(script).vec
          IN  /\ Len(rows) = Len(sentences(script))
              /\ \A i \in 1..Len(rows) :
                    /\ Len(rows[i][vec]) = Schema(script).dim
                    /\ Len(rows[i][vec]) = 384
                    /\ pc = "insert" =>
                          rows[i][vec] = Embed(bert, sentences(script)[i])
    /\ \A e \in AllEntities(db[target]) :
          Len(e.row[Schema(script).vec]) = Schema(script).dim

C8_Witness ==
    /\ script = "test"
    /\ pc = "flush"
    /\ Cardinality(db[target].growing) = 3
    /\ \A e \in db[target].growing : Len(e.row["book_intro"]) = 384

NoHit == SearchDone /\ Len(results[1]) = 0

\* C9: when the search returned no hit, no sentence is resolved and no row is
\* printed as the match.
C9_NoHitNoLookup ==
    NoHit => (matched_sentence = "" /\ printed = << >>)

\* C10: the calls of a run follow the lifecycle: connect before every other
\* call, drop only after has_collection answered true and before create,
\* create before insert, insert before flush, flush before create_index,
\* create_index before load, load before search, search before query, and
\* nothing after disconnect.
C10_LifecycleOrder ==
    /\ \A op \in Range(oplog) \ {"connect"} : Precedes("connect", op)
    /\ Issued("drop") => (check_collection /\ Precedes("has_collection", "drop"))
    /\ (Issued("drop") /\ Issued("create")) => Pos("drop") < Pos("create")
    /\ Precedes("create", "insert")
    /\ Precedes("insert", "flush")
    /\ Precedes("flush", "create_index")
    /\ Precedes("create_index", "load")
    /\ Precedes("load", "search")
    /\ Precedes("search", "query")
    /\ Issued("disconnect") => oplog[Len(oplog)] = "disconnect"

C10_Witness ==
    /\ pc = "done"
    /\ Issued("drop")
    /\ Issued("query")
    /\ oplog[Len(oplog)] = "disconnect"

====
